---- MODULE Spec2Model ----
\* Verification model of ugali's isochrone engine (src/analysis/isochrone.py):
\* Isochrone.sample / observableFraction / normalizeWithMask and
\* CompositeIsochrone construction / stellarMass / sample / simulate.
\*
\* Number model.  The program computes in IEEE doubles; the model computes in
\* exact or fixed-point arithmetic:
\*   masses      integers, unit 0.01 solar mass (interpolated values are floored);
\*   magnitudes  integers, unit 0.001 mag;
\*   log-masses  integers, unit 0.1 dex;
\*   weights     exact rationals <<numerator, denominator>>, denominator > 0,
\*               in lowest terms (so equal weights are equal tuples).
EXTENDS Integers, Sequences, FiniteSets, TLC

\* numpy_version, isochrones, mask and weights are the state of the isochrone
\* engine; outfiles, tables and commands are the state of the catalogue download
\* (src/preprocess/database.py): the pixels whose output file exists, the
\* pixels whose output table exists in MyDB, and the calls issued by the last
\* download() or run(); out is the last call with what it returned, prev the
\* call before it.
VARIABLES numpy_version, isochrones, mask, weights, out, prev,
          outfiles, tables, commands

vars == <<numpy_version, isochrones, mask, weights, out, prev, outfiles, tables, commands>>

-----------------------------------------------------------------------------
\* Bounds of the model.

\* sample() is called with mass_steps in 1..MaxSteps.
MaxSteps == 3
\* Stand-in for the default mass_steps=1000 of sample(), used by the callers
\* that do not pass mass_steps.
DefaultMassSteps == 3
\* Stand-in for the default steps=10000 of stellarMass().
DefaultSteps == 3
\* Number of interior pixels of the selection function.
NPixels == 2
\* simulate() is called for at most MaxStars stars.
MaxStars == 2

-----------------------------------------------------------------------------
\* Exact rational arithmetic (the float arithmetic on weights).

Abs(x) == IF x < 0 THEN -x ELSE x

RECURSIVE Gcd(_, _)
Gcd(a, b) == IF b = 0 THEN a ELSE Gcd(b, a % b)

\* n/d in lowest terms with a positive denominator (d # 0).
Rat(n, d) ==
    LET g == Gcd(Abs(n), Abs(d))
        s == IF d < 0 THEN -1 ELSE 1
    IN  <<(s * n) \div g, (s * d) \div g>>

RInt(k) == <<k, 1>>
RAdd(p, q) == Rat(p[1] * q[2] + q[1] * p[2], p[2] * q[2])
RMul(p, q) == Rat(p[1] * q[1], p[2] * q[2])
\* p / q, q # 0
RDiv(p, q) == Rat(p[1] * q[2], p[2] * q[1])
RLess(p, q) == p[1] * q[2] < q[1] * p[2]
RLeq(p, q) == p[1] * q[2] <= q[1] * p[2]
\* floor(p)
RFloor(p) == p[1] \div p[2]

\* The sum of the first k entries of s.
RECURSIVE RSumTo(_, _)
RSumTo(s, k) == IF k = 0 THEN RInt(0) ELSE RAdd(RSumTo(s, k - 1), s[k])

RSum(s) == RSumTo(s, Len(s))

\* numpy.cumsum
CumSum(s) == [k \in 1..Len(s) |-> RSumTo(s, k)]

SeqMax(s) == CHOOSE m \in {s[i] : i \in 1..Len(s)} : \A i \in 1..Len(s) : s[i] <= m
SeqMin(s) == CHOOSE m \in {s[i] : i \in 1..Len(s)} : \A i \in 1..Len(s) : m <= s[i]

-----------------------------------------------------------------------------
\* numpy / scipy behaviour that depends on the installed build.  The module is
\* Python 2 code, which runs on numpy up to 1.16:
\*   numpy <  1.12  a float array size (numpy.random.rand(2.0)) is accepted;
\*   numpy >= 1.12  it raises TypeError;
\*   numpy <  1.13  a boolean index shorter than the indexed array selects
\*                  among the leading elements;
\*   numpy >= 1.13  it raises IndexError.
NumpyVersions == {111, 112, 113}
FloatSizeError(v) == v >= 112
BoolIndexError(v) == v >= 113

\* arr[cut] with a boolean index cut, Len(cut) <= Len(arr), where accepted.
RECURSIVE BoolIndexFrom(_, _, _)
BoolIndexFrom(arr, cut, i) ==
    IF i > Len(cut) THEN <<>>
    ELSE (IF cut[i] THEN <<arr[i]>> ELSE <<>>) \o BoolIndexFrom(arr, cut, i + 1)

BoolIndex(arr, cut) == BoolIndexFrom(arr, cut, 1)

\* numpy.linspace(start, stop, num), num >= 1: num = 1 gives [start].
Linspace(start, stop, num) ==
    [k \in 1..num |->
        IF num = 1 THEN start
        ELSE IF k = num THEN stop
        ELSE start + ((k - 1) * (stop - start)) \div (num - 1)]

\* InterpIndex without the linear part: the value at the node below.
InterpIndexNode(y, num, den) ==
    LET last == Len(y) - 2
        i0   == IF num \div den > last THEN last ELSE num \div den
    IN  y[i0 + 1]

\* scipy.interpolate.interp1d(range(0, len(y)), y) at the position num/den,
\* 0 <= num/den <= len(y) - 1 (linear).
InterpIndex(y, num, den) ==
    LET last == Len(y) - 2
        i0   == IF num \div den > last THEN last ELSE num \div den
    IN  y[i0 + 1] + ((y[i0 + 2] - y[i0 + 1]) * (num - i0 * den)) \div den

\* Whether x_new is inside the domain of interp1d(x, y) (bounds_error=True
\* raises ValueError outside it).
InDomain(x, x_new) == x[1] <= x_new /\ x_new <= x[Len(x)]

\* scipy.interpolate.interp1d(x, y)(x_new), linear, x ascending, x_new in domain.
Interp1d(x, y, x_new) ==
    LET i == CHOOSE k \in 1..(Len(x) - 1) :
                 /\ x[k] <= x_new
                 /\ x_new <= x[k + 1]
                 /\ x[k] < x[k + 1]
    IN  y[i] + ((y[i + 1] - y[i]) * (x_new - x[i])) \div (x[i + 1] - x[i])

\* numpy.sqrt(a * b) for 0 < a <= b, floored to the mass unit.
GeoMean(a, b) == CHOOSE r \in a..b : r * r <= a * b /\ a * b < (r + 1) * (r + 1)

-----------------------------------------------------------------------------
\* The mass function ugali.analysis.imf.IMF, consumed through pdf() and
\* integrate().  Its code is not part of the sources at hand; it is modelled
\* from the specification's contract as a uniform mass function of density one
\* per mass unit.

\* ln(10), used by the density per log10-mass.
Ln10 == <<23, 10>>

\* IMF.pdf(mass, log_mode): density per mass unit, or per dex of mass.
Pdf(mass, log_mode) == IF log_mode THEN RMul(RInt(mass), Ln10) ELSE RInt(1)

\* IMF.integrate(mass_min, mass_max): expected count between the two masses.
Integrate(mass_min, mass_max) == RInt(mass_max - mass_min)

-----------------------------------------------------------------------------
\* Tabulated tracks as _parseIsochronePadova delivers them (parallel arrays).

ParsedTail ==
    [mass_init  |-> <<10, 50, 100, 150, 160>>,
     mass_act   |-> <<10, 50, 98, 140, 60>>,
     luminosity |-> <<1, 20, 500, 900, 3000>>,
     mag_1      |-> <<10000, 8000, 6000, 5000, 3000>>,
     mag_2      |-> <<9000, 7400, 5600, 4500, 2500>>,
     stage      |-> <<"MS", "RGB", "BHeb", "BHeb", "LTP">>]

ParsedPlain ==
    [mass_init  |-> <<10, 50, 100, 150>>,
     mass_act   |-> <<10, 50, 100, 150>>,
     luminosity |-> <<1, 20, 500, 900>>,
     mag_1      |-> <<10000, 8000, 6000, 5000>>,
     mag_2      |-> <<9500, 7600, 5700, 4800>>,
     stage      |-> <<"MS", "MS", "MS", "MS">>]

ParsedShort ==
    [mass_init  |-> <<20, 60, 90, 120>>,
     mass_act   |-> <<20, 60, 85, 50>>,
     luminosity |-> <<2, 40, 400, 2000>>,
     mag_1      |-> <<9000, 7000, 6500, 2000>>,
     mag_2      |-> <<8200, 6500, 5900, 1200>>,
     stage      |-> <<"MS", "BHeb", "BHeb", "LTP">>]

Parsed == <<ParsedTail, ParsedPlain, ParsedShort>>

\* config.params: the detection band and the horizontal-branch settings.
\* Dispersion and spacing are in units of 0.001 mag.
Configs ==
    [band_1_detection : BOOLEAN,
     horizontal_branch_dispersion : {0, 1, 50, 100, 200},
     horizontal_branch_spacing : {100},
     horizontal_branch_stage : {"BHeb"}]

\* IsochroneInit with index the 1-based position of the first 'LTP' entry.
IsochroneInitOneBased(config, parsed) ==
    LET N   == Len(parsed.mass_init)
        ltp == {i \in 1..N : parsed.stage[i] = "LTP"}
    IN  [mass_init  |-> parsed.mass_init,
         mass_act   |-> parsed.mass_act,
         luminosity |-> parsed.luminosity,
         mag_1      |-> parsed.mag_1,
         mag_2      |-> parsed.mag_2,
         stage      |-> parsed.stage,
         mass_init_upper_bound |-> SeqMax(parsed.mass_init),
         index      |-> IF ltp # {}
                        THEN CHOOSE i \in ltp : \A j \in ltp : i <= j
                        ELSE N,
         band_1_detection |-> config.band_1_detection,
         mag        |-> IF config.band_1_detection THEN parsed.mag_1 ELSE parsed.mag_2,
         color      |-> [i \in 1..N |-> parsed.mag_1[i] - parsed.mag_2[i]],
         horizontal_branch_dispersion |-> config.horizontal_branch_dispersion,
         horizontal_branch_spacing    |-> config.horizontal_branch_spacing,
         horizontal_branch_stage      |-> config.horizontal_branch_stage]

\* Isochrone.__init__ after parsing.  index counts the entries before the
\* first 'LTP' entry (Python's 0-based position of that entry).
IsochroneInit(config, parsed) ==
    LET N   == Len(parsed.mass_init)
        ltp == {i \in 1..N : parsed.stage[i] = "LTP"}
    IN  [mass_init  |-> parsed.mass_init,
         mass_act   |-> parsed.mass_act,
         luminosity |-> parsed.luminosity,
         mag_1      |-> parsed.mag_1,
         mag_2      |-> parsed.mag_2,
         stage      |-> parsed.stage,
         mass_init_upper_bound |-> SeqMax(parsed.mass_init),
         index      |-> IF ltp # {}
                        THEN (CHOOSE i \in ltp : \A j \in ltp : i <= j) - 1
                        ELSE N,
         band_1_detection |-> config.band_1_detection,
         mag        |-> IF config.band_1_detection THEN parsed.mag_1 ELSE parsed.mag_2,
         color      |-> [i \in 1..N |-> parsed.mag_1[i] - parsed.mag_2[i]],
         horizontal_branch_dispersion |-> config.horizontal_branch_dispersion,
         horizontal_branch_spacing    |-> config.horizontal_branch_spacing,
         horizontal_branch_stage      |-> config.horizontal_branch_stage]

-----------------------------------------------------------------------------
\* Isochrone.sample

\* The dispersion above which the horizontal branch is broadened: 1.e-3 mag.
HBThreshold == 1

\* A failed call: the exception raised, no arrays.
Raised(exception) ==
    [status |-> exception,
     mass_init_array |-> <<>>, mass_pdf_array |-> <<>>, mass_act_array |-> <<>>,
     mag_1_array |-> <<>>, mag_2_array |-> <<>>,
     origin |-> <<>>, raw |-> <<>>, pre |-> <<>>,
     cut |-> <<>>, n |-> 0, dispersion_array |-> <<>>]

\* SampleData with interpolants that accept fewer than two points and
\* deliver nothing for them.
SampleDataUnchecked(iso, mass_steps, full_data_range) ==
    LET hi        == IF full_data_range THEN Len(iso.mass_init) ELSE iso.index
        mass_init == SubSeq(iso.mass_init, 1, hi)
        mass_act  == SubSeq(iso.mass_act, 1, hi)
        mag_1     == SubSeq(iso.mag_1, 1, hi)
        mag_2     == SubSeq(iso.mag_2, 1, hi)
        mass_array == [k \in 1..(mass_steps + 1) |->
                          InterpIndex(mass_init, (k - 1) * (Len(mass_init) - 1), mass_steps)]
        d_mass    == [k \in 1..mass_steps |-> mass_array[k + 1] - mass_array[k]]
        mass_init_array == [k \in 1..mass_steps |-> GeoMean(mass_array[k], mass_array[k + 1])]
        mass_pdf_array  == [k \in 1..mass_steps |->
                               RMul(RInt(d_mass[k]), Pdf(mass_init_array[k], FALSE))]
    IN  IF Len(mass_init) < 2
        THEN [Raised("ValueError") EXCEPT !.status = "ok"]
        ELSE [status |-> "ok",
              mass_init_array |-> mass_init_array,
              mass_pdf_array  |-> mass_pdf_array,
              mass_act_array  |-> [k \in 1..mass_steps |->
                                      Interp1d(mass_init, mass_act, mass_init_array[k])],
              mag_1_array     |-> [k \in 1..mass_steps |->
                                      Interp1d(mass_init, mag_1, mass_init_array[k])],
              mag_2_array     |-> [k \in 1..mass_steps |->
                                      Interp1d(mass_init, mag_2, mass_init_array[k])],
              origin |-> [k \in 1..mass_steps |-> k],
              raw    |-> mass_pdf_array,
              pre    |-> mass_pdf_array,
              cut    |-> <<>>, n |-> 0, dispersion_array |-> <<>>]

\* Lines 220-247: the working range, the interpolants and the mode=='data'
\* grid.  Besides the five arrays the record keeps intermediate values of the
\* call for the properties: origin (the bin each entry was made from), raw (the
\* weights of line 244), pre (the weights before line 281), and the locals
\* cut, n and dispersion_array of the horizontal-branch block.
SampleData(iso, mass_steps, full_data_range) ==
    LET hi        == IF full_data_range THEN Len(iso.mass_init) ELSE iso.index
        mass_init == SubSeq(iso.mass_init, 1, hi)
        mass_act  == SubSeq(iso.mass_act, 1, hi)
        mag_1     == SubSeq(iso.mag_1, 1, hi)
        mag_2     == SubSeq(iso.mag_2, 1, hi)
        mass_array == [k \in 1..(mass_steps + 1) |->
                          InterpIndex(mass_init, (k - 1) * (Len(mass_init) - 1), mass_steps)]
        d_mass    == [k \in 1..mass_steps |-> mass_array[k + 1] - mass_array[k]]
        mass_init_array == [k \in 1..mass_steps |-> GeoMean(mass_array[k], mass_array[k + 1])]
        mass_pdf_array  == [k \in 1..mass_steps |->
                               RMul(RInt(d_mass[k]), Pdf(mass_init_array[k], FALSE))]
    IN  IF Len(mass_init) < 2
        THEN Raised("ValueError")
        ELSE [status |-> "ok",
              mass_init_array |-> mass_init_array,
              mass_pdf_array  |-> mass_pdf_array,
              mass_act_array  |-> [k \in 1..mass_steps |->
                                      Interp1d(mass_init, mass_act, mass_init_array[k])],
              mag_1_array     |-> [k \in 1..mass_steps |->
                                      Interp1d(mass_init, mag_1, mass_init_array[k])],
              mag_2_array     |-> [k \in 1..mass_steps |->
                                      Interp1d(mass_init, mag_2, mass_init_array[k])],
              origin |-> [k \in 1..mass_steps |-> k],
              raw    |-> mass_pdf_array,
              pre    |-> mass_pdf_array,
              cut    |-> <<>>, n |-> 0, dispersion_array |-> <<>>]

\* Line 250: whether the horizontal branch is broadened.
HBActive(iso) ==
    /\ iso.horizontal_branch_dispersion > HBThreshold
    /\ \E i \in 1..Len(iso.stage) : iso.stage[i] = iso.horizontal_branch_stage

\* Lines 255-257: the number of offsets.
HBCount(iso) ==
    LET n == (2 * iso.horizontal_branch_dispersion) \div iso.horizontal_branch_spacing
    IN  IF n % 2 # 1 THEN n + 1 ELSE n

\* Line 258: the offsets.
HBOffsets(iso) ==
    Linspace(-iso.horizontal_branch_dispersion, iso.horizontal_branch_dispersion, HBCount(iso))

\* Lines 251-254: the bins inside the mass span of the horizontal-branch points.
HBCut(iso, mass_init_array) ==
    LET hb  == {iso.mass_init[i] : i \in {j \in 1..Len(iso.stage) :
                                            iso.stage[j] = iso.horizontal_branch_stage}}
        lo  == CHOOSE m \in hb : \A x \in hb : m <= x
        top == CHOOSE m \in hb : \A x \in hb : x <= m
    IN  [k \in 1..Len(mass_init_array) |->
            mass_init_array[k] > lo /\ mass_init_array[k] < top]

\* Line 260: mass_pdf_array[cut] = mass_pdf_array[cut] / float(n)
DivideCut(mass_pdf_array, cut, n) ==
    [k \in 1..Len(mass_pdf_array) |->
        IF cut[k] THEN RDiv(mass_pdf_array[k], RInt(n)) ELSE mass_pdf_array[k]]

Shift(mags, dispersion) == [k \in 1..Len(mags) |-> mags[k] + dispersion]

\* AppendCut with the append to mass_act_array left out.
AppendCutWithoutMassAct(a, cut, dispersion, v) ==
    IF BoolIndexError(v) /\ Len(a.mass_init_array) # Len(cut)
    THEN Raised("IndexError")
    ELSE [a EXCEPT !.mass_init_array = @ \o BoolIndex(@, cut),
                   !.mass_pdf_array  = @ \o BoolIndex(@, cut),
                   !.mag_1_array     = @ \o Shift(BoolIndex(@, cut), dispersion),
                   !.mag_2_array     = @ \o Shift(BoolIndex(@, cut), dispersion),
                   !.origin          = @ \o BoolIndex(@, cut)]

\* Lines 265-270: one pass of the loop, for one nonzero offset.  The first
\* boolean indexing raises when the build refuses an index shorter than the
\* array.
AppendCut(a, cut, dispersion, v) ==
    IF BoolIndexError(v) /\ Len(a.mass_init_array) # Len(cut)
    THEN Raised("IndexError")
    ELSE [a EXCEPT !.mass_init_array = @ \o BoolIndex(@, cut),
                   !.mass_pdf_array  = @ \o BoolIndex(@, cut),
                   !.mass_act_array  = @ \o BoolIndex(@, cut),
                   !.mag_1_array     = @ \o Shift(BoolIndex(@, cut), dispersion),
                   !.mag_2_array     = @ \o Shift(BoolIndex(@, cut), dispersion),
                   !.origin          = @ \o BoolIndex(@, cut)]

\* Lines 262-270: the loop over the offsets from the k-th on.
RECURSIVE Disperse(_, _, _, _, _)
Disperse(a, cut, dispersion_array, k, v) ==
    IF k > Len(dispersion_array) \/ a.status # "ok" THEN a
    ELSE IF dispersion_array[k] = 0
         THEN Disperse(a, cut, dispersion_array, k + 1, v)
         ELSE Disperse(AppendCut(a, cut, dispersion_array[k], v),
                       cut, dispersion_array, k + 1, v)

\* Lines 250-270: horizontal-branch dispersion.
HorizontalBranchDispersion(iso, a, v) ==
    IF a.status # "ok" \/ ~HBActive(iso) THEN a
    ELSE LET cut == HBCut(iso, a.mass_init_array)
             n   == HBCount(iso)
             dispersion_array == HBOffsets(iso)
             divided == [a EXCEPT !.mass_pdf_array = DivideCut(@, cut, n),
                                  !.cut = cut, !.n = n,
                                  !.dispersion_array = dispersion_array]
             done == Disperse(divided, cut, dispersion_array, 1, v)
         IN  IF done.status # "ok" THEN done
             ELSE [done EXCEPT !.pre = done.mass_pdf_array]

\* Normalize dividing by the integral up to the last mass before the tail.
NormalizePreTail(iso, a, mass_min) ==
    IF a.status # "ok" THEN a
    ELSE [a EXCEPT !.mass_pdf_array =
             [k \in 1..Len(@) |->
                 RDiv(@[k], Integrate(mass_min, iso.mass_init[iso.index]))]]

\* Line 281: mass_pdf_array /= self.imf.integrate(mass_min, self.mass_init_upper_bound)
\* numpy divides a positive weight by zero to inf, here <<1, 0>>.
Normalize(iso, a, mass_min) ==
    IF a.status # "ok" THEN a
    ELSE [a EXCEPT !.mass_pdf_array =
             [k \in 1..Len(@) |->
                 RDiv(@[k], Integrate(mass_min, iso.mass_init_upper_bound))]]

\* Sample giving no weight to the bins whose mass is below mass_min.
SampleAboveMassMin(iso, v, mass_steps, mass_min, full_data_range) ==
    CHOOSE ret \in
        {IF s.status # "ok" THEN s
         ELSE [s EXCEPT !.mass_pdf_array =
                  [k \in 1..Len(@) |->
                      IF s.mass_init_array[k] < mass_min THEN RInt(0) ELSE @[k]]] :
         s \in {Normalize(iso,
                          HorizontalBranchDispersion(iso,
                              SampleData(iso, mass_steps, full_data_range), v),
                          mass_min)}} : TRUE

\* Isochrone.sample(mode='data', mass_steps, mass_min, full_data_range) on a
\* build v.
Sample(iso, v, mass_steps, mass_min, full_data_range) ==
    Normalize(iso,
              HorizontalBranchDispersion(iso, SampleData(iso, mass_steps, full_data_range), v),
              mass_min)

-----------------------------------------------------------------------------
\* The selection function (mask) handed to observableFraction and
\* normalizeWithMask: the global magnitude and colour bin edges of the region,
\* the per-band limits of the interior pixels, and the per-band depth maps over
\* the regular grid centers_y x centers_x.

MaskOf(shift) ==
    [bins_mag     |-> <<16000, 20000, 24000>>,
     bins_color   |-> <<-500, 250, 1000>>,
     pixels_interior |-> [p \in 1..NPixels |-> p],
     mag_1_mask   |-> [p \in 1..NPixels |-> IF p % 2 = 1 THEN 23000 + shift ELSE 26000],
     mag_2_mask   |-> [p \in 1..NPixels |-> IF p % 2 = 1 THEN 21500 ELSE 26000],
     centers_x    |-> <<1, 2>>,
     centers_y    |-> <<1, 2>>,
     mask_1       |-> <<<<22000 + shift, 23000>>, <<23000, 24000 + shift>>>>,
     mask_2       |-> <<<<21000, 22500>>, <<22500, 21000>>>>]

Masks == {MaskOf(0), MaskOf(500)}

\* numpy.tile(a, repeats) in the place of numpy.repeat: the array repeats times.
Tile(a, repeats) ==
    [k \in 1..(Len(a) * repeats) |-> a[((k - 1) % Len(a)) + 1]]

\* numpy.repeat(a, repeats): every element repeats times in a row.
Repeat(a, repeats) ==
    [k \in 1..(Len(a) * repeats) |-> a[((k - 1) \div repeats) + 1]]

\* flat.reshape(rows, cols): row-major.
Reshape(flat, rows, cols) ==
    [r \in 1..rows |-> [c \in 1..cols |-> flat[(r - 1) * cols + c]]]

\* m.sum(axis=0) of a rows x cols matrix of weights.
SumAxis0(m, rows, cols) ==
    [c \in 1..cols |-> RSum([r \in 1..rows |-> m[r][c]])]

\* MaskCut keeping the samples fainter than the limits.
MaskCutFainter(mag_1_repeat, mag_2_repeat, m, distance_modulus) ==
    [r \in 1..Len(mag_1_repeat) |-> [c \in 1..Len(m.pixels_interior) |->
        /\ mag_1_repeat[r][c] + distance_modulus > m.mag_1_mask[c]
        /\ mag_2_repeat[r][c] + distance_modulus > m.mag_2_mask[c]]]

\* Lines 413-414: per sample and pixel, whether the shifted magnitudes are
\* below the pixel's limits in both bands.
MaskCut(mag_1_repeat, mag_2_repeat, m, distance_modulus) ==
    [r \in 1..Len(mag_1_repeat) |-> [c \in 1..Len(m.pixels_interior) |->
        /\ mag_1_repeat[r][c] + distance_modulus < m.mag_1_mask[c]
        /\ mag_2_repeat[r][c] + distance_modulus < m.mag_2_mask[c]]]

\* Isochrone.observableFraction(mask, distance_modulus, mass_min)
ObservableFraction(iso, v, m, distance_modulus, mass_min) ==
    LET s        == Sample(iso, v, DefaultMassSteps, mass_min, FALSE)
        mag      == IF iso.band_1_detection THEN s.mag_1_array ELSE s.mag_2_array
        nsamples == Len(s.mass_pdf_array)
        npixels  == Len(m.pixels_interior)
        color    == [k \in 1..nsamples |-> s.mag_1_array[k] - s.mag_2_array[k]]
        mag_cut  == [k \in 1..nsamples |->
                        /\ mag[k] + distance_modulus > m.bins_mag[1]
                        /\ mag[k] + distance_modulus < m.bins_mag[Len(m.bins_mag)]]
        color_cut == [k \in 1..nsamples |->
                        /\ color[k] > m.bins_color[1]
                        /\ color[k] < m.bins_color[Len(m.bins_color)]]
        mass_pdf_cut == [k \in 1..nsamples |->
                            IF mag_cut[k] /\ color_cut[k] THEN s.mass_pdf_array[k]
                            ELSE RInt(0)]
        mag_1_repeat == Reshape(Repeat(s.mag_1_array, npixels), nsamples, npixels)
        mag_2_repeat == Reshape(Repeat(s.mag_2_array, npixels), nsamples, npixels)
        mask_cut_repeat == MaskCut(mag_1_repeat, mag_2_repeat, m, distance_modulus)
        mass_pdf_repeat == Reshape(Repeat(mass_pdf_cut, npixels), nsamples, npixels)
        product ==
            [r \in 1..nsamples |-> [c \in 1..npixels |->
                IF mask_cut_repeat[r][c] THEN mass_pdf_repeat[r][c] ELSE RInt(0)]]
    IN  IF s.status # "ok"
        THEN [status |-> s.status, observable_fraction |-> <<>>, sample |-> s]
        ELSE [status |-> "ok",
              observable_fraction |-> SumAxis0(product, nsamples, npixels),
              sample |-> s]

\* The default mass_min=0.1 of sample() and stellarMass(), in mass units.
DefaultMassMin == 10

\* Lines 428-449 of normalizeWithMask, given the four unpacked arrays.
NormalizeBody(mass_center_array, mass_pdf_array, mag_1_array, mag_2_array, m, distance_modulus, mass_min) ==
    LET below == mass_min < mass_center_array[1]
        fraction ==
            IF below
            THEN RDiv(Integrate(mass_center_array[1],
                                mass_center_array[Len(mass_center_array)]),
                      Integrate(mass_min, mass_center_array[Len(mass_center_array)]))
            ELSE RInt(1)
        cut == [k \in 1..Len(mass_center_array) |->
                   below \/ mass_center_array[k] > mass_min]
        normalization ==
            [bin_y \in 1..Len(m.centers_y) |-> [bin_x \in 1..Len(m.centers_x) |->
                LET mag_1_mask == m.mask_1[bin_y][bin_x]
                    mag_2_mask == m.mask_1[bin_y][bin_x]
                IN  RMul(fraction,
                         RSum([k \in 1..Len(mass_pdf_array) |->
                                 IF /\ cut[k]
                                    /\ mag_1_array[k] + distance_modulus < mag_1_mask
                                    /\ mag_2_array[k] + distance_modulus < mag_2_mask
                                 THEN mass_pdf_array[k] ELSE RInt(0)]))]]
    IN  [status |-> "ok", fraction |-> fraction, cut |-> cut,
         normalization |-> normalization]

\* Isochrone.normalizeWithMask(mask, distance_modulus, mass_steps, mass_min)
\* with kernel=None, plot=False.  Line 426 unpacks the tuple sample() returns
\* into four names.
NormalizeWithMask(iso, v, m, distance_modulus, mass_steps, mass_min) ==
    LET s        == Sample(iso, v, mass_steps, DefaultMassMin, FALSE)
        returned == <<s.mass_init_array, s.mass_pdf_array, s.mass_act_array,
                      s.mag_1_array, s.mag_2_array>>
    IN  IF s.status # "ok"
        THEN [status |-> s.status, fraction |-> RInt(0), cut |-> <<>>,
              normalization |-> <<>>]
        ELSE IF Len(returned) # 4
        THEN [status |-> "ValueError", fraction |-> RInt(0), cut |-> <<>>,
              normalization |-> <<>>]
        ELSE NormalizeBody(returned[1], returned[2], returned[3], returned[4],
                           m, distance_modulus, mass_min)

-----------------------------------------------------------------------------
\* The calls on single tracks.

MassMins == {5, 10, 50}
DistanceModuli == {8000, 12000, 16000}

NoCall == [op |-> "none"]

\* The state after construction of the given tracks from one configuration.
InitTracks(versions, configs, masks, parsed) ==
    /\ numpy_version \in versions
    /\ \E config \in configs, tracks \in parsed :
          isochrones = [i \in 1..Len(tracks) |-> IsochroneInit(config, tracks[i])]
    /\ mask \in masks
    /\ weights = [dtype |-> "none", input |-> <<>>, values |-> <<>>, status |-> "none"]
    /\ out = NoCall
    /\ prev = NoCall
    /\ outfiles = {}
    /\ tables = {}
    /\ commands = <<>>

\* The state after construction of the tracks from one configuration.
InitWith(versions, configs, masks) ==
    /\ numpy_version \in versions
    /\ \E config \in configs :
          isochrones = [i \in 1..Len(Parsed) |-> IsochroneInit(config, Parsed[i])]
    /\ mask \in masks
    /\ weights = [dtype |-> "none", input |-> <<>>, values |-> <<>>, status |-> "none"]
    /\ out = NoCall
    /\ prev = NoCall
    /\ outfiles = {}
    /\ tables = {}
    /\ commands = <<>>

\* sample() and normalizeWithMask() read neither the detection band nor the
\* limits of the interior pixels.
Init == InitWith(NumpyVersions, {c \in Configs : c.band_1_detection}, {MaskOf(0)})

CallSample(i, mass_steps, mass_min, full_data_range) ==
    /\ out' = [op |-> "sample", self |-> i, mass_steps |-> mass_steps,
               mass_min |-> mass_min, full_data_range |-> full_data_range,
               ret |-> Sample(isochrones[i], numpy_version, mass_steps, mass_min,
                              full_data_range)]
    /\ UNCHANGED <<numpy_version, isochrones, mask, weights, prev, outfiles, tables, commands>>

CallNormalizeWithMask(i, distance_modulus, mass_steps, mass_min) ==
    /\ out' = [op |-> "normalizeWithMask", self |-> i,
               distance_modulus |-> distance_modulus, mass_steps |-> mass_steps,
               mass_min |-> mass_min,
               ret |-> NormalizeWithMask(isochrones[i], numpy_version, mask,
                                         distance_modulus, mass_steps, mass_min)]
    /\ UNCHANGED <<numpy_version, isochrones, mask, weights, prev, outfiles, tables, commands>>

Next ==
    \/ \E i \in 1..Len(Parsed), mass_steps \in 1..MaxSteps, mass_min \in MassMins,
          full_data_range \in BOOLEAN :
          CallSample(i, mass_steps, mass_min, full_data_range)
    \/ \E i \in 1..Len(Parsed), distance_modulus \in {16000},
          mass_steps \in 1..MaxSteps, mass_min \in MassMins :
          CallNormalizeWithMask(i, distance_modulus, mass_steps, mass_min)

Spec == Init /\ [][Next]_vars

-----------------------------------------------------------------------------
\* A scan of observableFraction over distance moduli, for one track and one
\* mass_min: prev keeps the call before the last one.

InitObs == InitWith(NumpyVersions, Configs, Masks)

CallObservableFraction(i, distance_modulus, mass_min) ==
    /\ out.op # "none" => (out.self = i /\ out.mass_min = mass_min)
    /\ out' = [op |-> "observableFraction", self |-> i,
               distance_modulus |-> distance_modulus, mass_min |-> mass_min,
               ret |-> ObservableFraction(isochrones[i], numpy_version, mask,
                                          distance_modulus, mass_min)]
    /\ prev' = out
    /\ UNCHANGED <<numpy_version, isochrones, mask, weights, outfiles, tables, commands>>

NextObs ==
    \E i \in 1..Len(Parsed), distance_modulus \in DistanceModuli, mass_min \in MassMins :
        CallObservableFraction(i, distance_modulus, mass_min)

SpecObs == InitObs /\ [][NextObs]_vars

-----------------------------------------------------------------------------
\* Isochrone.stellarMass: a Riemann sum over a grid uniform in log10(mass).
\* Log-masses are integers in units of 0.1 dex relative to one solar mass.

\* 1000 * 10^(j/10) for j = 0..9.
Pow10Tab == <<1000, 1259, 1585, 1995, 2512, 3162, 3981, 5012, 6310, 7943>>

RECURSIVE TenTo(_)
TenTo(k) == IF k = 0 THEN 1 ELSE 10 * TenTo(k - 1)

\* 10.**log_mass in mass units, floored.
Pow10(log_mass) ==
    LET e == log_mass \div 10
        j == log_mass % 10
    IN  IF e >= 0 THEN (Pow10Tab[j + 1] * TenTo(e)) \div 10
        ELSE Pow10Tab[j + 1] \div (10 * TenTo(-e))

\* numpy.log10(mass), floored to the log-mass unit.
Log10(mass) == CHOOSE x \in -20..10 : Pow10(x) <= mass /\ mass < Pow10(x + 1)

\* Lines 289-291 and 313-315: the log-mass step, the grid of `steps` points
\* uniform in log10(mass) and the masses 10.**log_mass at which the terms of
\* the sum are evaluated.  numpy.log10 and 10.** round: mass[1] and
\* mass[steps] need not be mass_min and mass_max.
RiemannGrid(mass_min, mass_max, steps) ==
    LET log_mass == Linspace(Log10(mass_min), Log10(mass_max), steps)
    IN  [d_log_mass |-> Rat(Log10(mass_max) - Log10(mass_min), steps),
         log_mass   |-> log_mass,
         mass       |-> [k \in 1..steps |-> Pow10(log_mass[k])]]

\* Lines 293-297: the points of mass_act_interpolation.  Below the tabulated
\* masses, numpy.insert puts the point (mass_min, mass_min) in front.
MassActInterpolation(iso, mass_min) ==
    IF mass_min < SeqMin(iso.mass_init)
    THEN [x |-> <<mass_min>> \o iso.mass_init, y |-> <<mass_min>> \o iso.mass_act]
    ELSE [x |-> iso.mass_init, y |-> iso.mass_act]

\* Isochrone.stellarMass(mass_min, steps)
StellarMass(iso, mass_min, steps) ==
    LET grid       == RiemannGrid(mass_min, iso.mass_init_upper_bound, steps)
        d_log_mass == grid.d_log_mass
        mass       == grid.mass
        x          == MassActInterpolation(iso, mass_min).x
        y          == MassActInterpolation(iso, mass_min).y
    IN  IF \E k \in 1..steps : ~InDomain(x, mass[k])
        THEN [status |-> "ValueError", value |-> RInt(0)]
        ELSE [status |-> "ok",
              value  |-> RSum([k \in 1..steps |->
                                 RMul(RMul(RInt(Interp1d(x, y, mass[k])), d_log_mass),
                                      Pdf(mass[k], TRUE))])]

-----------------------------------------------------------------------------
\* CompositeIsochrone

\* Weight lists handed to the constructor: Python ints or Python floats.
WeightInputs ==
    {[dtype |-> "int",   input |-> <<RInt(2), RInt(2), RInt(4)>>],
     [dtype |-> "float", input |-> <<RInt(2), RInt(2), RInt(4)>>],
     [dtype |-> "int",   input |-> <<RInt(1), RInt(1), RInt(1)>>],
     [dtype |-> "float", input |-> <<<<1, 2>>, <<1, 4>>, <<1, 4>>>>],
     [dtype |-> "float", input |-> <<RInt(1), RInt(3)>>],
     [dtype |-> "int",   input |-> <<RInt(1)>>],
     [dtype |-> "float", input |-> <<RInt(1)>>]}

\* Line 578: self.weights /= numpy.sum(self.weights).  The module is Python 2
\* without true division: integers divide by flooring.
DivideWeights(dtype, values) ==
    LET total == RSum(values)
    IN  [i \in 1..Len(values) |->
            IF dtype = "int" THEN RInt(RFloor(RDiv(values[i], total)))
            ELSE RDiv(values[i], total)]

\* CompositeIsochrone.__init__(isochrones, weights)
CompositeInit(isos, w) ==
    IF Len(isos) # Len(w.input)
    THEN [dtype |-> w.dtype, input |-> w.input, values |-> <<>>, status |-> "SystemExit"]
    ELSE [dtype |-> w.dtype, input |-> w.input,
          values |-> DivideWeights(w.dtype, w.input), status |-> "ok"]

\* The first exception among member results, "ok" if none raised.
FirstStatus(results) ==
    IF \A i \in 1..Len(results) : results[i].status = "ok" THEN "ok"
    ELSE results[CHOOSE i \in 1..Len(results) :
                    /\ results[i].status # "ok"
                    /\ \A j \in 1..(i - 1) : results[j].status = "ok"].status

\* CompositeIsochrone.stellarMass()
CompositeStellarMass(isos, w) ==
    LET each == [i \in 1..Len(isos) |-> StellarMass(isos[i], DefaultMassMin, DefaultSteps)]
    IN  [status |-> FirstStatus(each),
         value  |-> RSum([i \in 1..Len(isos) |-> RMul(w[i], each[i].value)])]

RECURSIVE Concatenate(_)
Concatenate(arrays) ==
    IF arrays = <<>> THEN <<>> ELSE Head(arrays) \o Concatenate(Tail(arrays))

\* CompositeIsochrone.sample(mass_steps, mass_min, full_data_range)
CompositeSample(isos, w, v, mass_steps, mass_min, full_data_range) ==
    LET each == [i \in 1..Len(isos) |->
                    Sample(isos[i], v, mass_steps, mass_min, full_data_range)]
    IN  IF FirstStatus(each) # "ok" THEN Raised(FirstStatus(each))
        ELSE [status |-> "ok",
              mass_init_array |-> Concatenate([i \in 1..Len(isos) |-> each[i].mass_init_array]),
              mass_pdf_array  |-> Concatenate([i \in 1..Len(isos) |->
                                     [k \in 1..Len(each[i].mass_pdf_array) |->
                                         RMul(w[i], each[i].mass_pdf_array[k])]]),
              mass_act_array  |-> Concatenate([i \in 1..Len(isos) |-> each[i].mass_act_array]),
              mag_1_array     |-> Concatenate([i \in 1..Len(isos) |-> each[i].mag_1_array]),
              mag_2_array     |-> Concatenate([i \in 1..Len(isos) |-> each[i].mag_2_array])]

\* Line 643-644 for one draw u: numpy.floor(f(u)) with
\* f = interp1d(cdf, range(0, len(cdf)), bounds_error=False, fill_value=-1).
\* The segment is found as scipy does (searchsorted, clipped); a draw outside
\* [cdf[0], cdf[-1]] gives the fill value -1, and so does, after the cast to
\* int, the undefined value of a zero-width segment.
DrawIndex(cdf, u) ==
    LET below == Cardinality({i \in 1..Len(cdf) : RLess(cdf[i], u)})
        hi    == IF below < 1 THEN 1 ELSE IF below > Len(cdf) - 1 THEN Len(cdf) - 1 ELSE below
    IN  IF RLess(u, cdf[1]) \/ RLess(cdf[Len(cdf)], u) THEN -1
        ELSE IF cdf[hi + 1] = cdf[hi] THEN -1
        ELSE IF u = cdf[hi + 1] THEN hi
        ELSE hi - 1

\* The failed simulate().
SimulateRaised(exception) == [status |-> exception, mag_1 |-> <<>>, mag_2 |-> <<>>, n |-> <<0, 1>>]

\* CompositeIsochrone.simulate(stellar_mass, distance_modulus), given the
\* values numpy.random.rand draws.  n is a float: rand(n) is refused by the
\* builds that want an integer size, and fails on every build when n is
\* not a number (0 / 0.) or infinite (x / 0.).
SimulateFrom(sm, s, cdf, v, stellar_mass, distance_modulus, draws) ==
    LET n  == RDiv(RInt(stellar_mass), sm.value)
        index == [k \in 1..Len(draws) |-> DrawIndex(cdf, draws[k])]
        kept  == SelectSeq(index, LAMBDA i : i >= 0)
    IN  IF sm.status # "ok" THEN SimulateRaised(sm.status)
        ELSE IF s.status # "ok" THEN SimulateRaised(s.status)
        ELSE IF sm.value[1] = 0
        THEN SimulateRaised(IF stellar_mass = 0 THEN "ValueError" ELSE "OverflowError")
        ELSE IF FloatSizeError(v) THEN SimulateRaised("TypeError")
        ELSE IF \E k \in 1..Len(kept) : kept[k] >= Len(s.mag_1_array)
        THEN SimulateRaised("IndexError")
        ELSE [status |-> "ok",
              mag_1 |-> [k \in 1..Len(kept) |-> s.mag_1_array[kept[k] + 1] + distance_modulus],
              mag_2 |-> [k \in 1..Len(kept) |-> s.mag_2_array[kept[k] + 1] + distance_modulus],
              n |-> n]

\* Lines 639-642: the values simulate() computes once, before it draws.
Simulate(isos, w, v, stellar_mass, distance_modulus, draws) ==
    CHOOSE ret \in
        {SimulateFrom(sm, p[1], p[2], v, stellar_mass, distance_modulus, draws) :
            sm \in {CompositeStellarMass(isos, w)},
            p \in {<<s, <<RInt(0)>> \o CumSum(s.mass_pdf_array)>> :
                      s \in {CompositeSample(isos, w, v, DefaultMassSteps,
                                              DefaultMassMin, FALSE)}}} : TRUE

\* The number of values numpy.random.rand(n) draws (the float size truncated).
DrawCount(isos, w, stellar_mass) ==
    LET sm == CompositeStellarMass(isos, w)
    IN  IF sm.status # "ok" \/ sm.value[1] = 0 THEN 0
        ELSE RFloor(RDiv(RInt(stellar_mass), sm.value))

-----------------------------------------------------------------------------
\* Construction and use of a composite of the three tracks.

\* Total stellar masses asked of simulate(), in the unit of stellarMass().
StellarMasses == {0, 250000}

\* Values numpy.random.rand can draw, in [0, 1).
DrawValues == {<<0, 1>>, <<1, 3>>}

\* The composite is built from the three tracks, or from the plain track alone.
TrackLists == {Parsed, <<ParsedPlain>>}

InitComposite ==
    InitTracks(NumpyVersions, {c \in Configs : c.band_1_detection}, {MaskOf(0)}, TrackLists)

\* cdf[-1] of simulate(): the total weight of the mixture sample.
TotalWeight(isos, w, v) ==
    CHOOSE total \in
        {IF s.status = "ok" THEN RSum(s.mass_pdf_array) ELSE RInt(0) :
            s \in {CompositeSample(isos, w, v, DefaultMassSteps, DefaultMassMin, FALSE)}} :
        TRUE

\* The values numpy.random.rand can return to one simulate() call: a few
\* values of [0, 1), among them the double equal to cdf[-1] when that is
\* below 1.
DrawsFor(isos, w, v) ==
    DrawValues \cup {total \in {TotalWeight(isos, w, v)} : RLess(total, RInt(1))}

CallCompositeInit(w) ==
    /\ weights' = CompositeInit(isochrones, w)
    /\ out' = NoCall
    /\ UNCHANGED <<numpy_version, isochrones, mask, prev, outfiles, tables, commands>>

CallSimulate(stellar_mass, distance_modulus) ==
    /\ weights.status = "ok"
    /\ LET count == IF FloatSizeError(numpy_version) THEN 0
                    ELSE DrawCount(isochrones, weights.values, stellar_mass)
       IN  /\ count <= MaxStars
           /\ \E pool \in {IF count = 0 THEN {}
                             ELSE DrawsFor(isochrones, weights.values, numpy_version)} :
              \E draws \in [1..count -> pool] :
                 out' = [op |-> "simulate", stellar_mass |-> stellar_mass,
                         distance_modulus |-> distance_modulus, draws |-> draws,
                         ret |-> Simulate(isochrones, weights.values, numpy_version,
                                          stellar_mass, distance_modulus, draws)]
    /\ UNCHANGED <<numpy_version, isochrones, mask, weights, prev, outfiles, tables, commands>>

CallCompositeStellarMass ==
    /\ weights.status = "ok"
    /\ out' = [op |-> "stellarMass", ret |-> CompositeStellarMass(isochrones, weights.values)]
    /\ UNCHANGED <<numpy_version, isochrones, mask, weights, prev, outfiles, tables, commands>>

CallCompositeSample(mass_steps, mass_min, full_data_range) ==
    /\ weights.status = "ok"
    /\ out' = [op |-> "sample", self |-> 0, mass_steps |-> mass_steps,
               mass_min |-> mass_min, full_data_range |-> full_data_range,
               ret |-> CompositeSample(isochrones, weights.values, numpy_version,
                                       mass_steps, mass_min, full_data_range)]
    /\ UNCHANGED <<numpy_version, isochrones, mask, weights, prev, outfiles, tables, commands>>

NextComposite ==
    \/ \E w \in WeightInputs : CallCompositeInit(w)
    \/ CallCompositeStellarMass
    \/ \E mass_steps \in 1..MaxSteps, mass_min \in MassMins, full_data_range \in BOOLEAN :
          CallCompositeSample(mass_steps, mass_min, full_data_range)
    \/ \E stellar_mass \in StellarMasses, distance_modulus \in {0, 16000} :
          CallSimulate(stellar_mass, distance_modulus)

SpecComposite == InitComposite /\ [][NextComposite]_vars

-----------------------------------------------------------------------------
\* sample() outside its domain: tracks whose working range is short and
\* mass_min at or above the upper mass bound.

\* A file whose first entry already carries the 'LTP' label.
ParsedTailFirst ==
    [mass_init  |-> <<10, 50, 100>>,
     mass_act   |-> <<10, 50, 60>>,
     luminosity |-> <<1, 20, 500>>,
     mag_1      |-> <<10000, 8000, 6000>>,
     mag_2      |-> <<9000, 7400, 5600>>,
     stage      |-> <<"LTP", "MS", "MS">>]

\* A file with a single entry before the 'LTP' entries.
ParsedTailSecond ==
    [mass_init  |-> <<10, 50, 100>>,
     mass_act   |-> <<10, 40, 60>>,
     luminosity |-> <<1, 900, 3000>>,
     mag_1      |-> <<10000, 4000, 3000>>,
     mag_2      |-> <<9000, 3400, 2500>>,
     stage      |-> <<"MS", "LTP", "LTP">>]

\* A file with a single entry.
ParsedOne ==
    [mass_init  |-> <<100>>,
     mass_act   |-> <<100>>,
     luminosity |-> <<500>>,
     mag_1      |-> <<6000>>,
     mag_2      |-> <<5600>>,
     stage      |-> <<"MS">>]

ParsedDomain == <<ParsedTail, ParsedTailFirst, ParsedTailSecond, ParsedOne>>

DomainMassMins == {10, 150, 160, 200}

\* The contract of IMF.integrate covers mass_min < mass_max only.
IntegrateDefined(mass_min, mass_max) == mass_min < mass_max

\* What IMF.integrate does outside its contract: it returns the value of
\* its formula, or it raises.
ImfOutcomes == {"value", "error"}

\* Isochrone.sample with a mass function that behaves as imf outside the
\* contract of integrate().
SampleUnder(iso, v, mass_steps, mass_min, full_data_range, imf) ==
    CHOOSE ret \in
        {IF a.status = "ok" /\ imf = "error"
               /\ ~IntegrateDefined(mass_min, iso.mass_init_upper_bound)
         THEN Raised("ValueError")
         ELSE Normalize(iso, a, mass_min) :
            a \in {HorizontalBranchDispersion(iso,
                        SampleData(iso, mass_steps, full_data_range), v)}} : TRUE

InitDomain ==
    InitTracks(NumpyVersions,
               {c \in Configs : c.band_1_detection
                                  /\ c.horizontal_branch_dispersion \in {0, 100}},
               {MaskOf(0)}, {ParsedDomain})

CallSampleUnder(i, mass_steps, mass_min, full_data_range, imf) ==
    /\ imf = "error" => ~IntegrateDefined(mass_min, isochrones[i].mass_init_upper_bound)
    /\ out' = [op |-> "sample", self |-> i, mass_steps |-> mass_steps,
               mass_min |-> mass_min, full_data_range |-> full_data_range,
               imf |-> imf,
               ret |-> SampleUnder(isochrones[i], numpy_version, mass_steps, mass_min,
                                   full_data_range, imf)]
    /\ UNCHANGED <<numpy_version, isochrones, mask, weights, prev, outfiles, tables, commands>>

NextDomain ==
    \E i \in 1..Len(ParsedDomain), mass_steps \in 1..MaxSteps, mass_min \in DomainMassMins,
       full_data_range \in BOOLEAN, imf \in ImfOutcomes :
       CallSampleUnder(i, mass_steps, mass_min, full_data_range, imf)

SpecDomain == InitDomain /\ [][NextDomain]_vars

-----------------------------------------------------------------------------
\* The horizontal-branch envelope: _setHorizontalBranch and horizontalBranch.
\* __init__ does not call _setHorizontalBranch (line 56 is a comment); until
\* a caller does, the track has none of the three attributes.

\* A track with a single horizontal-branch point.
ParsedHBSingle ==
    [mass_init  |-> <<10, 50, 100, 150>>,
     mass_act   |-> <<10, 50, 98, 140>>,
     luminosity |-> <<1, 20, 500, 900>>,
     mag_1      |-> <<10000, 8000, 6000, 5000>>,
     mag_2      |-> <<9000, 7400, 5600, 4500>>,
     stage      |-> <<"MS", "RGB", "BHeb", "RGB">>]

\* A track whose horizontal-branch points have decreasing colours (0.6, 0.4).
ParsedHBFalling ==
    [mass_init  |-> <<10, 50, 100, 150>>,
     mass_act   |-> <<10, 50, 98, 140>>,
     luminosity |-> <<1, 20, 500, 900>>,
     mag_1      |-> <<10000, 8000, 6000, 5000>>,
     mag_2      |-> <<9000, 7400, 5400, 4600>>,
     stage      |-> <<"MS", "RGB", "BHeb", "BHeb">>]

\* The default pad=0.5 mag of _setHorizontalBranch.
DefaultPad == 500

\* self.stage == horizontal_branch_stage, as the positions that hold.
StageCut(iso, horizontal_branch_stage) ==
    {i \in 1..Len(iso.stage) : iso.stage[i] = horizontal_branch_stage}

\* array[cut] for a cut given as a set of positions.
Take(array, cut) ==
    [k \in 1..Cardinality(cut) |->
        array[CHOOSE i \in cut : Cardinality({j \in cut : j < i}) = k - 1]]

\* The points interp1d keeps: ordered by x where the build sorts its input
\* (assume_sorted=False), as given where it does not.
Interp1dPoints(x, y, sorts) ==
    IF sorts
    THEN LET order == [k \in 1..Len(x) |->
                          CHOOSE i \in 1..Len(x) :
                              Cardinality({j \in 1..Len(x) :
                                  x[j] < x[i] \/ (x[j] = x[i] /\ j < i)}) = k - 1]
         IN  [x |-> [k \in 1..Len(x) |-> x[order[k]]],
              y |-> [k \in 1..Len(x) |-> y[order[k]]]]
    ELSE [x |-> x, y |-> y]

\* Whether the track has the attributes _setHorizontalBranch assigns.
HasEnvelope(iso) == "horizontal_branch_density" \in DOMAIN iso

\* Isochrone._setHorizontalBranch(horizontal_branch_stage, pad): the outcome
\* and the track afterwards.  Line 540 only prints; with fewer than two points
\* interp1d raises at line 542, before anything is assigned.
SetHorizontalBranch(iso, horizontal_branch_stage, pad, sorts) ==
    LET cut    == StageCut(iso, horizontal_branch_stage)
        color  == Take(iso.color, cut)
        mag    == Take(iso.mag, cut)
        mass   == Take(iso.mass_init, cut)
        warned == \/ Cardinality(cut) < 2
                  \/ \E k \in 1..(Len(color) - 1) : color[k] > color[k + 1]
    IN  IF Cardinality(cut) < 2
        THEN [status |-> "ValueError", warned |-> warned, self |-> iso]
        ELSE [status |-> "ok", warned |-> warned,
              self |->
                [horizontal_branch_stage_lower_envelope |->
                     Interp1dPoints(color, [k \in 1..Len(mag) |-> mag[k] - pad], sorts),
                 horizontal_branch_stage_upper_envelope |->
                     Interp1dPoints(color, [k \in 1..Len(mag) |-> mag[k] + pad], sorts),
                 horizontal_branch_density |->
                     RDiv(Integrate(mass[1], mass[Len(mass)]),
                          RInt(2 * pad * (color[Len(color)] - color[1])))]
                @@ iso]

\* interp1d(x, y, bounds_error=False, fill_value=0.)(x_new): the fill value
\* below x[0] and above x[-1], the linear interpolant elsewhere.
Interp1dFilled(points, x_new) ==
    IF x_new < points.x[1] \/ x_new > points.x[Len(points.x)] THEN 0
    ELSE Interp1d(points.x, points.y, x_new)

\* HorizontalBranch with the envelope itself counted as inside.
HorizontalBranchInclusive(iso, color, mag) ==
    IF ~HasEnvelope(iso) THEN [status |-> "AttributeError", value |-> RInt(0)]
    ELSE IF /\ mag >= Interp1dFilled(iso.horizontal_branch_stage_lower_envelope, color)
            /\ mag <= Interp1dFilled(iso.horizontal_branch_stage_upper_envelope, color)
         THEN [status |-> "ok", value |-> iso.horizontal_branch_density]
         ELSE [status |-> "ok", value |-> RInt(0)]

\* Isochrone.horizontalBranch(color, mag) for a scalar color (lines 552-557).
HorizontalBranch(iso, color, mag) ==
    IF ~HasEnvelope(iso) THEN [status |-> "AttributeError", value |-> RInt(0)]
    ELSE IF /\ mag > Interp1dFilled(iso.horizontal_branch_stage_lower_envelope, color)
            /\ mag < Interp1dFilled(iso.horizontal_branch_stage_upper_envelope, color)
         THEN [status |-> "ok", value |-> iso.horizontal_branch_density]
         ELSE [status |-> "ok", value |-> RInt(0)]

\* Isochrone.horizontalBranch(color, mag) for arrays (lines 559-563).
HorizontalBranchVector(iso, color, mag) ==
    IF ~HasEnvelope(iso) THEN [status |-> "AttributeError", value |-> <<>>]
    ELSE LET cut == [k \in 1..Len(color) |->
                        /\ mag[k] > Interp1dFilled(iso.horizontal_branch_stage_lower_envelope,
                                                   color[k])
                        /\ mag[k] < Interp1dFilled(iso.horizontal_branch_stage_upper_envelope,
                                                   color[k])]
         IN  [status |-> "ok",
              value  |-> [k \in 1..Len(color) |->
                             IF cut[k] THEN iso.horizontal_branch_density ELSE RInt(0)]]

\* CompositeIsochrone.horizontalBranch(color, mag) for a scalar color.
CompositeHorizontalBranch(isos, w, color, mag) ==
    LET each == [i \in 1..Len(isos) |-> HorizontalBranch(isos[i], color, mag)]
    IN  [status |-> FirstStatus(each),
         value  |-> RSum([i \in 1..Len(isos) |-> RMul(w[i], each[i].value)])]

\* Queried points: colours below, inside, at the red end of and above the
\* horizontal branches; magnitudes off, on and inside the envelopes.
HBColors == {300, 450, 500, 700}
HBMags == {0, 5000, 5500, 7000}
HBVectors == {[color |-> <<450, 300, 450>>, mag |-> <<5500, 5500, 5000>>],
              [color |-> <<500, 700>>, mag |-> <<7000, 0>>]}

\* Weights of the composites of two tracks, as Python floats and as Python ints.
HBWeightInputs ==
    {[dtype |-> "float", input |-> <<RInt(1), RInt(3)>>],
     [dtype |-> "int",   input |-> <<RInt(1), RInt(3)>>]}

HBTrackLists == {<<ParsedTail, ParsedShort>>, <<ParsedPlain, ParsedHBSingle, ParsedHBFalling>>}

InitHB ==
    InitTracks({113}, {c \in Configs : c.horizontal_branch_dispersion = 0},
               {MaskOf(0)}, HBTrackLists)

CallSetHorizontalBranch(i, sorts) ==
    /\ \E r \in {SetHorizontalBranch(isochrones[i], "BHeb", DefaultPad, sorts)} :
          /\ isochrones' = [isochrones EXCEPT ![i] = r.self]
          /\ out' = [op |-> "_setHorizontalBranch", self |-> i,
                     ret |-> [status |-> r.status, warned |-> r.warned]]
    /\ UNCHANGED <<numpy_version, mask, weights, prev, outfiles, tables, commands>>

CallHorizontalBranch(i, color, mag) ==
    /\ out' = [op |-> "horizontalBranch", self |-> i, isscalar |-> TRUE,
               color |-> color, mag |-> mag,
               ret |-> HorizontalBranch(isochrones[i], color, mag)]
    /\ UNCHANGED <<numpy_version, isochrones, mask, weights, prev, outfiles, tables, commands>>

CallHorizontalBranchVector(i, points) ==
    /\ out' = [op |-> "horizontalBranch", self |-> i, isscalar |-> FALSE,
               color |-> points.color, mag |-> points.mag,
               ret |-> HorizontalBranchVector(isochrones[i], points.color, points.mag)]
    /\ UNCHANGED <<numpy_version, isochrones, mask, weights, prev, outfiles, tables, commands>>

CallCompositeHorizontalBranch(color, mag) ==
    /\ weights.status = "ok"
    /\ out' = [op |-> "horizontalBranch", self |-> 0, isscalar |-> TRUE,
               color |-> color, mag |-> mag,
               ret |-> CompositeHorizontalBranch(isochrones, weights.values, color, mag)]
    /\ UNCHANGED <<numpy_version, isochrones, mask, weights, prev, outfiles, tables, commands>>

NextHB ==
    \/ \E i \in 1..Len(isochrones), sorts \in BOOLEAN : CallSetHorizontalBranch(i, sorts)
    \/ \E i \in 1..Len(isochrones), color \in HBColors, mag \in HBMags :
          CallHorizontalBranch(i, color, mag)
    \/ \E i \in 1..Len(isochrones), points \in HBVectors :
          CallHorizontalBranchVector(i, points)
    \/ \E w \in HBWeightInputs : CallCompositeInit(w)
    \/ \E color \in HBColors, mag \in HBMags : CallCompositeHorizontalBranch(color, mag)

SpecHB == InitHB /\ [][NextHB]_vars

-----------------------------------------------------------------------------
\* Sequences of calls on the tracks: out is the last call with what it
\* returned, prev the call before it with what it had returned.

\* Lines 319-320: the points of luminosity_interpolation, the tabulated ones.
LuminosityInterpolation(iso) == [x |-> iso.mass_init, y |-> iso.luminosity]

\* Isochrone.stellarLuminosity(steps): the Riemann sum of stellarMass over the
\* tabulated mass range, without the point added below it.  The grid ends are
\* 10**log10 of the range ends, rounded: an end can fall outside the range,
\* where the interpolant raises.
StellarLuminosity(iso, steps) ==
    LET grid       == RiemannGrid(SeqMin(iso.mass_init), iso.mass_init_upper_bound, steps)
        d_log_mass == grid.d_log_mass
        mass       == grid.mass
        x          == LuminosityInterpolation(iso).x
        y          == LuminosityInterpolation(iso).y
    IN  IF \E k \in 1..steps : ~InDomain(x, mass[k])
        THEN [status |-> "ValueError", value |-> RInt(0)]
        ELSE [status |-> "ok",
              value  |-> RSum([k \in 1..steps |->
                                 RMul(RMul(RInt(Interp1d(x, y, mass[k])), d_log_mass),
                                      Pdf(mass[k], TRUE))])]

\* TrackAfterCall for a call that stored a rescaled luminosity on the track.
TrackAfterCallRescaled(iso) ==
    [iso EXCEPT !.luminosity = [k \in 1..Len(@) |-> 2 * @[k]]]

\* The track after sample(), stellarMass(), stellarLuminosity() or
\* observableFraction(): lines 215-326 and 378-420 assign no attribute of self,
\* and what they write in place (lines 260 and 281) is mass_pdf_array, an
\* array made by the call itself at line 244.
TrackAfterCall(iso) == iso

\* What the call recorded in c returns on the tracks isos.
Returns(isos, v, m, c) ==
    CASE c.op = "sample" ->
             Sample(isos[c.self], v, c.mass_steps, c.mass_min, c.full_data_range)
      [] c.op = "stellarMass" -> StellarMass(isos[c.self], c.mass_min, DefaultSteps)
      [] c.op = "stellarLuminosity" -> StellarLuminosity(isos[c.self], DefaultSteps)
      [] c.op = "observableFraction" ->
             ObservableFraction(isos[c.self], v, m, c.distance_modulus, c.mass_min)

\* The calls of a sequence.
FrameCalls ==
    UNION {{[op |-> "sample", self |-> i, mass_steps |-> MaxSteps, mass_min |-> 10,
             full_data_range |-> f] : f \in BOOLEAN}
           \cup {[op |-> "stellarMass", self |-> i, mass_min |-> 10],
                 [op |-> "stellarLuminosity", self |-> i],
                 [op |-> "observableFraction", self |-> i, distance_modulus |-> 16000,
                  mass_min |-> 10]} : i \in 1..Len(Parsed)}

InitFrame ==
    InitWith({111}, {c \in Configs : c.band_1_detection
                                       /\ c.horizontal_branch_dispersion \in {0, 100}},
             {MaskOf(0)})

Call(c) ==
    /\ out' = [call |-> c, ret |-> Returns(isochrones, numpy_version, mask, c)]
    /\ prev' = out
    /\ isochrones' = [isochrones EXCEPT ![c.self] = TrackAfterCall(@)]
    /\ UNCHANGED <<numpy_version, mask, weights, outfiles, tables, commands>>

CallSampleInSequence == \E c \in {x \in FrameCalls : x.op = "sample"} : Call(c)
CallStellarMass == \E c \in {x \in FrameCalls : x.op = "stellarMass"} : Call(c)
CallStellarLuminosity == \E c \in {x \in FrameCalls : x.op = "stellarLuminosity"} : Call(c)
CallObservableFractionInSequence ==
    \E c \in {x \in FrameCalls : x.op = "observableFraction"} : Call(c)

NextFrame ==
    \/ CallSampleInSequence
    \/ CallStellarMass
    \/ CallStellarLuminosity
    \/ CallObservableFractionInSequence

SpecFrame == InitFrame /\ [][NextFrame]_vars

-----------------------------------------------------------------------------
\* stellarMass() and stellarLuminosity() called with a step count and, for
\* stellarMass, a minimum mass below, at and above the smallest tabulated
\* mass.  out records, next to what the call returned, the local values of the
\* call: its grid and the points of its interpolant.

\* stellarMass() and stellarLuminosity() are called with steps in
\* 1..MaxGridSteps.
MaxGridSteps == 4

\* The minimum masses passed to stellarMass(): 0.05 to 0.5 solar masses.
RiemannMassMins == {5, 8, 10, 15, 20, 50}

InitRiemann ==
    InitTracks(NumpyVersions,
               {c \in Configs : c.band_1_detection
                                  /\ c.horizontal_branch_dispersion \in {0, 100}},
               {MaskOf(0)}, {Parsed})

CallStellarMassWith(i, mass_min, steps) ==
    /\ out' = [op |-> "stellarMass", self |-> i, mass_min |-> mass_min, steps |-> steps,
               grid |-> RiemannGrid(mass_min, isochrones[i].mass_init_upper_bound, steps),
               points |-> MassActInterpolation(isochrones[i], mass_min),
               ret |-> StellarMass(isochrones[i], mass_min, steps)]
    /\ UNCHANGED <<numpy_version, isochrones, mask, weights, prev, outfiles, tables, commands>>

CallStellarLuminosityWith(i, steps) ==
    /\ out' = [op |-> "stellarLuminosity", self |-> i, steps |-> steps,
               grid |-> RiemannGrid(SeqMin(isochrones[i].mass_init),
                                    isochrones[i].mass_init_upper_bound, steps),
               points |-> LuminosityInterpolation(isochrones[i]),
               ret |-> StellarLuminosity(isochrones[i], steps)]
    /\ UNCHANGED <<numpy_version, isochrones, mask, weights, prev, outfiles, tables, commands>>

NextRiemann ==
    \/ \E i \in 1..Len(Parsed), mass_min \in RiemannMassMins, steps \in 1..MaxGridSteps :
          CallStellarMassWith(i, mass_min, steps)
    \/ \E i \in 1..Len(Parsed), steps \in 1..MaxGridSteps :
          CallStellarLuminosityWith(i, steps)

SpecRiemann == InitRiemann /\ [][NextRiemann]_vars

-----------------------------------------------------------------------------
\* SDSSDatabase.download and SDSSDatabase.run (src/preprocess/database.py).
\* The commands download() runs are external (casjobs.jar, wget): each one
\* either succeeds or exits with a non-zero status, which
\* subprocess.check_output turns into CalledProcessError.

\* run() visits the pixels 0..MaxSkyPixels-1 (load_pixels).
MaxSkyPixels == 2

PixelNames == 0..(MaxSkyPixels - 1)

\* What the environment answers during one download():
\*   installed  casjobs.jar and CasJobs.config exist (_setup_casjobs);
\*   query      the query command: done, done with 'ERROR:' in its output, or
\*              a non-zero exit status;
\*   extract    the extract command: output with a URL, output without one,
\*              or a non-zero exit status;
\*   wget       the transfer: done, or a non-zero exit status;
\*   drop       the drop command: done, or a non-zero exit status.
Environments ==
    [installed : BOOLEAN,
     query     : {"done", "ERROR:", "exit status"},
     extract   : {"url", "no url", "exit status"},
     wget      : {"done", "exit status"},
     drop      : {"done", "exit status"}]

Issue(name, pixel) == [command |-> name, pixel |-> pixel]

\* SDSSDatabase.drop(dbname) called with the state st: the command is issued;
\* the table is gone if it succeeds, and CalledProcessError leaves drop()
\* otherwise.  status is what download() ends with if the drop succeeds.
Drop(st, pixel, env, status) ==
    [outfiles |-> st.outfiles,
     tables   |-> IF env.drop = "done" THEN st.tables \ {pixel} ELSE st.tables,
     commands |-> st.commands \o <<Issue("drop", pixel)>>,
     status   |-> IF env.drop = "done" THEN status ELSE "CalledProcessError"]

\* SDSSDatabase.download(pixel, outdir, force) from the state
\* st = [outfiles, tables, commands], lines 153-189.
Download(st, pixel, force, env) ==
    LET submitted == [st EXCEPT !.commands = @ \o <<Issue("generate_query", pixel),
                                                    Issue("query", pixel)>>]
        queried   == [submitted EXCEPT !.tables = @ \cup {pixel}]
        extracted == [queried EXCEPT !.commands = @ \o <<Issue("extract", pixel)>>]
        fetching  == [extracted EXCEPT !.commands = @ \o <<Issue("wget", pixel)>>]
    IN  IF ~env.installed
        THEN [st EXCEPT !.status = "IOError"]
        ELSE IF pixel \in st.outfiles /\ ~force
        THEN [st EXCEPT !.status = "returned"]
        ELSE IF env.query # "done"
        THEN Drop(submitted, pixel, env, "CalledProcessError")
        ELSE IF env.extract = "exit status"
        THEN Drop(extracted, pixel, env, "CalledProcessError")
        ELSE IF env.extract = "no url"
        THEN Drop(extracted, pixel, env, "returned")
        ELSE IF env.wget # "done"
        THEN [fetching EXCEPT !.status = "CalledProcessError"]
        ELSE Drop([fetching EXCEPT !.outfiles = @ \cup {pixel}], pixel, env, "returned")

\* SDSSDatabase.run(pixfile, outdir), lines 255-258: download(pixel, outdir)
\* for the pixels from `pixel` on, in order, until one raises; envs[p] is what
\* the environment answers during the download of pixel p.
RECURSIVE RunFrom(_, _, _)
RunFrom(st, pixel, envs) ==
    IF pixel \notin PixelNames \/ st.status # "returned" THEN st
    ELSE RunFrom(Download(st, pixel, FALSE, envs[pixel]), pixel + 1, envs)

Run(st, envs) == RunFrom(st, 0, envs)

\* The state of the download as a record, with no call issued yet.
DownloadState == [outfiles |-> outfiles, tables |-> tables, commands |-> <<>>,
                  status |-> "returned"]

InitDownload ==
    /\ numpy_version = 111
    /\ isochrones = <<>>
    /\ mask = MaskOf(0)
    /\ weights = [dtype |-> "none", input |-> <<>>, values |-> <<>>, status |-> "none"]
    /\ out = NoCall
    /\ prev = NoCall
    /\ outfiles = {}
    /\ tables = {}
    /\ commands = <<>>

\* What a call that ended in the state st leaves behind.
Leave(st) ==
    /\ outfiles' = st.outfiles
    /\ tables' = st.tables
    /\ commands' = st.commands
    /\ UNCHANGED <<numpy_version, isochrones, mask, weights, prev>>

CallDownload(pixel, force, env) ==
    \E st \in {Download(DownloadState, pixel, force, env)} :
        /\ out' = [op |-> "download", pixel |-> pixel, force |-> force,
                   existed |-> pixel \in outfiles, status |-> st.status]
        /\ Leave(st)

CallRun(envs) ==
    \E st \in {Run(DownloadState, envs)} :
        /\ out' = [op |-> "run", status |-> st.status]
        /\ Leave(st)

NextDownload ==
    \/ \E pixel \in PixelNames, force \in BOOLEAN, env \in Environments :
          CallDownload(pixel, force, env)
    \/ \E envs \in [PixelNames -> Environments] : CallRun(envs)

SpecDownload == InitDownload /\ [][NextDownload]_vars

-----------------------------------------------------------------------------
\* Properties of Isochrone.sample (checked under Spec).

SampleReturned == out.op = "sample" /\ out.ret.status = "ok"

\* C1: whenever sample() returns, the five returned sequences (representative
\* mass, weight, actual mass, magnitude 1, magnitude 2) have the same length,
\* with or without the tail and with or without horizontal-branch broadening.
SampleLengthsEqual ==
    SampleReturned =>
        /\ Len(out.ret.mass_pdf_array) = Len(out.ret.mass_init_array)
        /\ Len(out.ret.mass_act_array) = Len(out.ret.mass_init_array)
        /\ Len(out.ret.mag_1_array) = Len(out.ret.mass_init_array)
        /\ Len(out.ret.mag_2_array) = Len(out.ret.mass_init_array)

\* A broadened sample over the full range: duplicates were appended for two
\* nonzero offsets.
SampleLengthsEqualWitness ==
    /\ SampleReturned
    /\ out.full_data_range
    /\ out.ret.n >= 3
    /\ Len(out.ret.mass_init_array) > out.mass_steps + 1

\* The weights, before line 281, of the entries made from bin i.
CopiesOf(ret, i) ==
    LET idx == {j \in 1..Len(ret.origin) : ret.origin[j] = i}
        F[S \in SUBSET idx] ==
            IF S = {} THEN RInt(0)
            ELSE LET j == CHOOSE x \in S : TRUE
                 IN  RAdd(ret.pre[j], F[S \ {j}])
    IN  F[idx]

\* C2: horizontal-branch broadening conserves weight: for every bin in the
\* horizontal-branch span, the weights of the bin and of its duplicates, before
\* the final normalization, add up to the weight the bin had before broadening.
HBWeightConserved ==
    (SampleReturned /\ HBActive(isochrones[out.self])) =>
        \A i \in 1..out.mass_steps :
            out.ret.cut[i] => CopiesOf(out.ret, i) = out.ret.raw[i]

\* C3: the number of offsets is odd and one offset is exactly 0; with a single
\* offset that offset is 0, nothing is appended and the output is the one
\* obtained with the broadening disabled.
HBOffsetsOddWithZero ==
    (SampleReturned /\ HBActive(isochrones[out.self])) =>
        LET iso  == isochrones[out.self]
            off  == [iso EXCEPT !.horizontal_branch_dispersion = 0]
            plain == Sample(off, numpy_version, out.mass_steps, out.mass_min,
                            out.full_data_range)
        IN  /\ out.ret.n % 2 = 1
            /\ \E k \in 1..Len(out.ret.dispersion_array) : out.ret.dispersion_array[k] = 0
            /\ out.ret.n = 1 =>
                  /\ out.ret.dispersion_array = <<0>>
                  /\ Len(out.ret.mass_init_array) = out.mass_steps
                  /\ out.ret.mass_pdf_array = plain.mass_pdf_array
                  /\ out.ret.mag_1_array = plain.mag_1_array
                  /\ out.ret.mag_2_array = plain.mag_2_array

\* C4: every returned weight is the weight before normalization divided by
\* the mass-function integral from mass_min to the largest tabulated initial
\* mass of the whole track, tail included, whatever full_data_range is; the
\* bins outside the horizontal-branch span carry their raw weight (bin width
\* times density) divided by that integral.
SampleNormalizedByFullTrack ==
    SampleReturned =>
        LET iso  == isochrones[out.self]
            full == Integrate(out.mass_min, SeqMax(iso.mass_init))
        IN  /\ \A k \in 1..Len(out.ret.mass_pdf_array) :
                   out.ret.mass_pdf_array[k] = RDiv(out.ret.pre[k], full)
            /\ \A k \in 1..out.mass_steps :
                   (out.ret.cut = <<>> \/ ~out.ret.cut[k]) =>
                       out.ret.mass_pdf_array[k] = RDiv(out.ret.raw[k], full)

\* A sample without the tail of a track that has one, taken from the lowest
\* tabulated mass: its weights do not add up to 1.
SampleNormalizedByFullTrackWitness ==
    /\ SampleReturned
    /\ ~out.full_data_range
    /\ isochrones[out.self].index < Len(isochrones[out.self].mass_init)
    /\ out.mass_min = isochrones[out.self].mass_init[1]
    /\ RLess(RSum(out.ret.mass_pdf_array), RInt(1))

\* C23: mass_min selects no bins.  The call repeated with any other mass_min
\* returns the same representative masses, actual masses and magnitudes, and
\* weights proportional to the ones returned (one common factor); every
\* returned weight is nonzero, below mass_min too.
SampleMassMinOnlyScales ==
    SampleReturned =>
        /\ \A k \in 1..Len(out.ret.mass_pdf_array) : out.ret.mass_pdf_array[k][1] # 0
        /\ \A mass_min \in MassMins :
              \E other \in {Sample(isochrones[out.self], numpy_version, out.mass_steps,
                                    mass_min, out.full_data_range)} :
                  /\ other.status = "ok"
                  /\ other.mass_init_array = out.ret.mass_init_array
                  /\ other.mass_act_array = out.ret.mass_act_array
                  /\ other.mag_1_array = out.ret.mag_1_array
                  /\ other.mag_2_array = out.ret.mag_2_array
                  /\ Len(other.mass_pdf_array) = Len(out.ret.mass_pdf_array)
                  /\ \A j, k \in 1..Len(other.mass_pdf_array) :
                         RMul(other.mass_pdf_array[j], out.ret.mass_pdf_array[k]) =
                             RMul(other.mass_pdf_array[k], out.ret.mass_pdf_array[j])

\* A returned sample with a bin whose representative mass is below mass_min.
SampleMassMinOnlyScalesWitness ==
    /\ SampleReturned
    /\ \E k \in 1..Len(out.ret.mass_init_array) :
          /\ out.ret.mass_init_array[k] < out.mass_min
          /\ out.ret.mass_pdf_array[k][1] # 0

-----------------------------------------------------------------------------
\* Properties of Isochrone.normalizeWithMask (checked under Spec).

\* The samples normalizeWithMask works on.
MaskSample == Sample(isochrones[out.self], numpy_version, out.mass_steps,
                     DefaultMassMin, FALSE)

\* C8: normalizeWithMask returns a map whose value in every spatial bin is the
\* correction factor times the summed weight of the samples that clear the
\* bin's band-1 depth in magnitude 1 and the bin's band-2 depth in magnitude 2.
NormalizationPerBandDepth ==
    out.op = "normalizeWithMask" =>
        /\ out.ret.status = "ok"
        /\ \A bin_y \in 1..Len(mask.centers_y), bin_x \in 1..Len(mask.centers_x) :
              out.ret.normalization[bin_y][bin_x] =
                  RMul(out.ret.fraction,
                       RSum([k \in 1..Len(MaskSample.mass_pdf_array) |->
                               IF /\ out.ret.cut[k]
                                  /\ MaskSample.mag_1_array[k] + out.distance_modulus
                                        < mask.mask_1[bin_y][bin_x]
                                  /\ MaskSample.mag_2_array[k] + out.distance_modulus
                                        < mask.mask_2[bin_y][bin_x]
                               THEN MaskSample.mass_pdf_array[k] ELSE RInt(0)]))

\* C9: with mass_min below the lowest sampled mass every sample is kept and
\* the factor is integrate(lowest, highest sampled mass) / integrate(mass_min,
\* highest sampled mass); otherwise the factor is 1 and exactly the samples
\* with mass > mass_min are kept.
NormalizationMassMinFactor ==
    out.op = "normalizeWithMask" =>
        /\ out.ret.status = "ok"
        /\ LET mass == MaskSample.mass_init_array
               lowest  == SeqMin(mass)
               highest == SeqMax(mass)
           IN  IF out.mass_min < lowest
               THEN /\ out.ret.fraction = RDiv(Integrate(lowest, highest),
                                               Integrate(out.mass_min, highest))
                    /\ \A k \in 1..Len(mass) : out.ret.cut[k]
               ELSE /\ out.ret.fraction = RInt(1)
                    /\ \A k \in 1..Len(mass) : out.ret.cut[k] <=> mass[k] > out.mass_min

-----------------------------------------------------------------------------
\* Properties of Isochrone.observableFraction (checked under SpecObs).

ObservableReturned == out.op = "observableFraction" /\ out.ret.status = "ok"

\* Two calls in a row that returned, the later at a distance modulus not
\* smaller than the earlier.
ObservableFartherThanBefore ==
    /\ ObservableReturned
    /\ prev.op = "observableFraction" /\ prev.ret.status = "ok"
    /\ prev.self = out.self /\ prev.mass_min = out.mass_min
    /\ prev.distance_modulus <= out.distance_modulus

\* The detection-band magnitudes of a returned sample.
DetectionMag(iso, s) == IF iso.band_1_detection THEN s.mag_1_array ELSE s.mag_2_array

\* C6 as stated: for d1 <= d2 the value of every interior pixel at d2 is not
\* greater than its value at d1.
ObservableFractionNonIncreasing ==
    ObservableFartherThanBefore =>
        \A p \in 1..Len(mask.pixels_interior) :
            RLeq(out.ret.observable_fraction[p], prev.ret.observable_fraction[p])

\* At the earlier distance modulus every sample is fainter than the bright
\* edge of the global magnitude range.
AllBeyondBrightEdge ==
    LET mag == DetectionMag(isochrones[prev.self], prev.ret.sample)
    IN  \A k \in 1..Len(mag) : mag[k] + prev.distance_modulus > mask.bins_mag[1]

\* C6 as amended: for d1 <= d2 such that at d1 every sample's detection-band
\* magnitude plus d1 is above the lower global magnitude bound, the value of
\* every interior pixel at d2 is not greater than its value at d1.
ObservableFractionNonIncreasingBeyondBrightEdge ==
    (ObservableFartherThanBefore /\ AllBeyondBrightEdge) =>
        \A p \in 1..Len(mask.pixels_interior) :
            RLeq(out.ret.observable_fraction[p], prev.ret.observable_fraction[p])

\* A farther call, all samples beyond the bright edge before it, that lost
\* observable weight in some pixel.
ObservableFractionDecreasedWitness ==
    /\ ObservableFartherThanBefore
    /\ AllBeyondBrightEdge
    /\ prev.distance_modulus < out.distance_modulus
    /\ \E p \in 1..Len(mask.pixels_interior) :
          RLess(out.ret.observable_fraction[p], prev.ret.observable_fraction[p])

\* The summed weight of the samples of s that lie strictly inside the global
\* magnitude and colour bounds and are below pixel p's limits in both bands.
RECURSIVE SumOver(_, _)
SumOver(S, w) ==
    IF S = {} THEN RInt(0)
    ELSE LET k == CHOOSE x \in S : TRUE IN RAdd(w[k], SumOver(S \ {k}, w))

ObservableSamples(iso, s, m, distance_modulus, p) ==
    LET mag == DetectionMag(iso, s)
    IN  {k \in 1..Len(s.mass_pdf_array) :
            /\ mag[k] + distance_modulus > m.bins_mag[1]
            /\ mag[k] + distance_modulus < m.bins_mag[Len(m.bins_mag)]
            /\ s.mag_1_array[k] - s.mag_2_array[k] > m.bins_color[1]
            /\ s.mag_1_array[k] - s.mag_2_array[k] < m.bins_color[Len(m.bins_color)]
            /\ s.mag_1_array[k] + distance_modulus < m.mag_1_mask[p]
            /\ s.mag_2_array[k] + distance_modulus < m.mag_2_mask[p]}

\* C7: observableFraction returns one value per interior pixel; each is the
\* summed weight of exactly the samples of the pre-tail sample that lie
\* strictly inside the global magnitude and colour bounds and are below that
\* pixel's limits in both bands, hence between 0 and the total sampled weight.
ObservableFractionIsFilteredWeight ==
    ObservableReturned =>
        LET iso == isochrones[out.self]
            s   == out.ret.sample
        IN  /\ Len(out.ret.observable_fraction) = Len(mask.pixels_interior)
            /\ \A k \in 1..Len(s.mass_init_array) :
                  s.mass_init_array[k] <= iso.mass_init[iso.index]
            /\ \A p \in 1..Len(mask.pixels_interior) :
                  /\ out.ret.observable_fraction[p] =
                        SumOver(ObservableSamples(iso, s, mask, out.distance_modulus, p),
                                s.mass_pdf_array)
                  /\ RLeq(RInt(0), out.ret.observable_fraction[p])
                  /\ RLeq(out.ret.observable_fraction[p], RSum(s.mass_pdf_array))

\* A call in which two pixels see different, nonzero parts of the sample and
\* a sample below a pixel's limits is removed by the global bounds alone.
ObservableFractionIsFilteredWeightWitness ==
    /\ ObservableReturned
    /\ \E p, q \in 1..Len(mask.pixels_interior) :
          /\ RLess(RInt(0), out.ret.observable_fraction[p])
          /\ RLess(out.ret.observable_fraction[p], out.ret.observable_fraction[q])
          /\ \E k \in 1..Len(out.ret.sample.mass_pdf_array) :
                /\ out.ret.sample.mag_1_array[k] + out.distance_modulus < mask.mag_1_mask[q]
                /\ out.ret.sample.mag_2_array[k] + out.distance_modulus < mask.mag_2_mask[q]
                /\ k \notin ObservableSamples(isochrones[out.self], out.ret.sample, mask,
                                              out.distance_modulus, q)

-----------------------------------------------------------------------------
\* Properties of CompositeIsochrone (checked under SpecComposite).

\* C5: after construction from positive weights of any scale and numeric
\* type, the stored weights add up to 1 and each is the input weight divided
\* by the sum of the inputs.
CompositeWeightsNormalized ==
    weights.status = "ok" =>
        /\ RSum(weights.values) = RInt(1)
        /\ \A i \in 1..Len(weights.input) :
              weights.values[i] = RDiv(weights.input[i], RSum(weights.input))

\* C10: simulate(stellar_mass=0, distance_modulus) returns two empty
\* magnitude arrays, for every composite and every distance modulus.
SimulateNothingIsEmpty ==
    (out.op = "simulate" /\ out.stellar_mass = 0) =>
        /\ out.ret.status = "ok"
        /\ out.ret.mag_1 = <<>>
        /\ out.ret.mag_2 = <<>>

\* The index simulate() must use for the draw u: the entry of the mixture
\* sample whose cumulative-weight interval [cdf[i], cdf[i+1]) holds u, 0-based;
\* -1 for a draw at or above the total weight.
IntervalOf(pdf, u) ==
    LET cdf == <<RInt(0)>> \o CumSum(pdf)
    IN  IF \E i \in 1..Len(pdf) : RLeq(cdf[i], u) /\ RLess(u, cdf[i + 1])
        THEN (CHOOSE i \in 1..Len(pdf) : RLeq(cdf[i], u) /\ RLess(u, cdf[i + 1])) - 1
        ELSE -1

\* C11: whenever simulate() has drawn, it returns; the draws at or above the
\* total cumulative weight are discarded and every other draw yields the pair
\* (mag_1[i] + distance_modulus, mag_2[i] + distance_modulus) of the entry i
\* in 0..L-1 of the mixture sample whose cumulative interval holds the draw, so
\* the two arrays are equally long and no longer than the number of draws.
SimulateDrawsMapToSamples ==
    (out.op = "simulate" /\ out.draws # <<>>) =>
        LET s == CompositeSample(isochrones, weights.values, numpy_version,
                                 DefaultMassSteps, DefaultMassMin, FALSE)
            index == [k \in 1..Len(out.draws) |-> IntervalOf(s.mass_pdf_array, out.draws[k])]
            kept  == SelectSeq(index, LAMBDA i : i >= 0)
        IN  /\ out.ret.status = "ok"
            /\ Len(out.ret.mag_1) = Len(out.ret.mag_2)
            /\ Len(out.ret.mag_1) <= Len(out.draws)
            /\ out.ret.mag_1 = [k \in 1..Len(kept) |->
                                   s.mag_1_array[kept[k] + 1] + out.distance_modulus]
            /\ out.ret.mag_2 = [k \in 1..Len(kept) |->
                                   s.mag_2_array[kept[k] + 1] + out.distance_modulus]

\* C12: CompositeIsochrone.stellarMass() is the sum over the members of the
\* normalized weight (input weight over the sum of the input weights) times
\* the member's stellarMass(); for a composite of one track with weight 1 it
\* equals that track's stellarMass().
CompositeStellarMassIsWeightedSum ==
    out.op = "stellarMass" =>
        LET each == [i \in 1..Len(isochrones) |->
                        StellarMass(isochrones[i], DefaultMassMin, DefaultSteps)]
        IN  /\ out.ret.status = "ok"
            /\ out.ret.value =
                  RSum([i \in 1..Len(isochrones) |->
                          RMul(RDiv(weights.input[i], RSum(weights.input)), each[i].value)])
            /\ (Len(isochrones) = 1 /\ weights.input = <<RInt(1)>>)
                  => out.ret.value = each[1].value

\* The members' own samples for the arguments of the last composite sample().
MemberSamples ==
    [i \in 1..Len(isochrones) |->
        Sample(isochrones[i], numpy_version, out.mass_steps, out.mass_min,
               out.full_data_range)]

\* C22: what CompositeIsochrone.sample() returns is the concatenation, in
\* member order, of the members' sample() outputs for the same arguments: the
\* length is the sum of the member lengths, masses and magnitudes are the
\* members' values, and each weight is the member's weight times the member's
\* normalized mixture weight (input weight over the sum of the input weights).
CompositeSampleIsScaledConcatenation ==
    (out.op = "sample" /\ out.ret.status = "ok") =>
        \E each \in {MemberSamples} :
            /\ Len(out.ret.mass_init_array) =
                   RSum([i \in 1..Len(each) |-> RInt(Len(each[i].mass_init_array))])[1]
            /\ out.ret.mass_init_array =
                   Concatenate([i \in 1..Len(each) |-> each[i].mass_init_array])
            /\ out.ret.mass_act_array =
                   Concatenate([i \in 1..Len(each) |-> each[i].mass_act_array])
            /\ out.ret.mag_1_array = Concatenate([i \in 1..Len(each) |-> each[i].mag_1_array])
            /\ out.ret.mag_2_array = Concatenate([i \in 1..Len(each) |-> each[i].mag_2_array])
            /\ out.ret.mass_pdf_array =
                   Concatenate([i \in 1..Len(each) |->
                       [k \in 1..Len(each[i].mass_pdf_array) |->
                           RMul(RDiv(weights.input[i], RSum(weights.input)),
                                each[i].mass_pdf_array[k])]])

-----------------------------------------------------------------------------
\* Properties of sample() outside its domain and of construction (checked
\* under SpecDomain).

\* The number of tabulated points of the working range of the last call.
WorkingRange ==
    IF out.full_data_range THEN Len(isochrones[out.self].mass_init)
    ELSE isochrones[out.self].index

\* C13: sample() called with mass_min at or above the track's
\* mass_init_upper_bound fails with an error and returns no sample; it never
\* returns infinite or negative weights.
SampleRefusesMassMinAtBound ==
    (out.op = "sample" /\ out.mass_min >= isochrones[out.self].mass_init_upper_bound) =>
        /\ out.ret.status # "ok"
        /\ out.ret.mass_pdf_array = <<>>

\* C14: sample() fails with an error and returns no sample whenever the
\* working range has fewer than 2 tabulated points, in particular without
\* the tail when index is 0 or 1.
SampleRefusesShortRange ==
    (out.op = "sample" /\ WorkingRange < 2) =>
        /\ out.ret.status # "ok"
        /\ out.ret.mass_init_array = <<>>
        /\ out.ret.mass_pdf_array = <<>>
        /\ out.ret.mass_act_array = <<>>
        /\ out.ret.mag_1_array = <<>>
        /\ out.ret.mag_2_array = <<>>

\* sample() without the tail has failed on a track of three points whose
\* index is 1, with a mass_min inside the track's mass range.
SampleRefusesShortRangeWitness ==
    /\ out.op = "sample"
    /\ ~out.full_data_range
    /\ Len(isochrones[out.self].mass_init) = 3
    /\ isochrones[out.self].index = 1
    /\ out.mass_min < isochrones[out.self].mass_init_upper_bound
    /\ out.ret.status = "ValueError"

\* C20: after construction of a track with N points, index is the 0-based
\* position of the first 'LTP' entry if there is one and N otherwise, so it
\* is in 0..N and no entry before it is 'LTP'; mass_init_upper_bound is the
\* maximum of all N initial masses, those of the tail included.
IndexAndUpperBoundOfTrack ==
    \A i \in 1..Len(isochrones) :
        LET iso == isochrones[i]
            N   == Len(iso.mass_init)
            ltp == {j \in 1..N : iso.stage[j] = "LTP"}
        IN  /\ iso.index \in 0..N
            /\ ltp = {} => iso.index = N
            /\ ltp # {} => iso.index + 1 \in ltp
            /\ \A j \in 1..iso.index : iso.stage[j] # "LTP"
            /\ \A j \in 1..N : iso.mass_init[j] <= iso.mass_init_upper_bound
            /\ \E j \in 1..N : iso.mass_init[j] = iso.mass_init_upper_bound

\* Tracks have been constructed whose tail starts at the first entry, in the
\* middle and nowhere, and one whose largest mass lies in the tail; sample()
\* has been called since.
IndexAndUpperBoundOfTrackWitness ==
    /\ out.op = "sample"
    /\ \E i \in 1..Len(isochrones) : isochrones[i].index = 0
    /\ \E i \in 1..Len(isochrones) : isochrones[i].index = Len(isochrones[i].mass_init)
    /\ \E i \in 1..Len(isochrones) :
          LET iso == isochrones[i]
          IN  /\ 0 < iso.index
              /\ iso.index < Len(iso.mass_init)
              /\ \A j \in 1..iso.index : iso.mass_init[j] < iso.mass_init_upper_bound

-----------------------------------------------------------------------------
\* The scenario of the four-point track (checked under Spec).

\* C19: with broadening inactive sample() returns exactly mass_steps bins;
\* for the track with mass_init = [0.1, 0.5, 1.0, 1.5], no tail and no
\* broadening, under the uniform mass function, sample(mass_steps=3,
\* mass_min=0.1) returns 3 bins, the i-th representative mass lies between the
\* i-th and the (i+1)-th tabulated mass, and the weights sum to 1.
SampleScenarioThreeBins ==
    (SampleReturned /\ ~HBActive(isochrones[out.self])) =>
        LET iso == isochrones[out.self] IN
        /\ Len(out.ret.mass_init_array) = out.mass_steps
        /\ Len(out.ret.mass_pdf_array) = out.mass_steps
        /\ (/\ iso.mass_init = <<10, 50, 100, 150>>
            /\ iso.index = 4
            /\ out.mass_steps = 3
            /\ out.mass_min = 10)
           => /\ \A k \in 1..3 : /\ iso.mass_init[k] < out.ret.mass_init_array[k]
                                 /\ out.ret.mass_init_array[k] < iso.mass_init[k + 1]
              /\ RSum(out.ret.mass_pdf_array) = RInt(1)

\* The scenario's call has returned three bins whose weights sum to 1.
SampleScenarioThreeBinsWitness ==
    /\ SampleReturned
    /\ isochrones[out.self].mass_init = <<10, 50, 100, 150>>
    /\ isochrones[out.self].mag_1 = <<10000, 8000, 6000, 5000>>
    /\ isochrones[out.self].index = 4
    /\ ~HBActive(isochrones[out.self])
    /\ out.mass_steps = 3
    /\ out.mass_min = 10
    /\ Len(out.ret.mass_init_array) = 3
    /\ RSum(out.ret.mass_pdf_array) = RInt(1)

-----------------------------------------------------------------------------
\* Properties of the horizontal-branch envelope (checked under SpecHB).

\* The colours of the points of the track that carry the default stage
\* label, in tabulated order.
HBPointColors(iso) == Take(iso.color, StageCut(iso, "BHeb"))

\* At least two horizontal-branch points, of strictly increasing colour.
HBPointsUsable(iso) ==
    LET color == HBPointColors(iso)
    IN  /\ Len(color) >= 2
        /\ \A k \in 1..(Len(color) - 1) : color[k] < color[k + 1]

\* C15: construction of the envelope fails with an error and installs
\* neither envelope nor density whenever fewer than 2 points carry the
\* horizontal-branch label or their colours are not strictly increasing.
EnvelopeRefusesUnusablePoints ==
    (out.op = "_setHorizontalBranch" /\ ~HBPointsUsable(isochrones[out.self])) =>
        /\ out.ret.status # "ok"
        /\ ~HasEnvelope(isochrones[out.self])

\* C16: on a track with at least 2 horizontal-branch points every
\* horizontalBranch() query, the first one on the fresh track included,
\* returns a density value, the envelope being built by the first query.
EnvelopeBuiltOnFirstQuery ==
    (/\ out.op = "horizontalBranch"
     /\ out.self # 0
     /\ Len(HBPointColors(isochrones[out.self])) >= 2) =>
        /\ out.ret.status = "ok"
        /\ HasEnvelope(isochrones[out.self])

\* Whether mag lies strictly between the lower and the upper envelope at
\* color: the lines through successive horizontal-branch points, moved down
\* and up by the pad, compared without rounding.
InsideEnvelope(iso, color, mag) ==
    LET c == HBPointColors(iso)
        m == Take(iso.mag, StageCut(iso, "BHeb"))
    IN  \E k \in 1..(Len(c) - 1) :
            /\ c[k] <= color
            /\ color <= c[k + 1]
            /\ (mag + DefaultPad - m[k]) * (c[k + 1] - c[k])
                   > (m[k + 1] - m[k]) * (color - c[k])
            /\ (mag - DefaultPad - m[k]) * (c[k + 1] - c[k])
                   < (m[k + 1] - m[k]) * (color - c[k])

\* The value claimed for one point on a track with an envelope.
HBValueHolds(iso, color, mag, value) ==
    /\ value \in {RInt(0), iso.horizontal_branch_density}
    /\ (\A k \in 1..Len(HBPointColors(iso)) : color < HBPointColors(iso)[k]) => value = RInt(0)
    /\ (\A k \in 1..Len(HBPointColors(iso)) : color > HBPointColors(iso)[k]) => value = RInt(0)
    /\ HBPointsUsable(iso) =>
          value = IF InsideEnvelope(iso, color, mag)
                  THEN iso.horizontal_branch_density ELSE RInt(0)

\* C17: once the envelope exists, horizontalBranch(color, mag) returns the
\* track's density when mag lies strictly between the lower and the upper
\* envelope at that colour and 0 otherwise, 0 in particular outside the colour
\* range of the horizontal-branch points; the array form returns the scalar
\* value element by element; the composite returns the sum over its members
\* of the member's weight in the composite times the member's value.
HorizontalBranchInsideEnvelope ==
    out.op = "horizontalBranch" =>
        IF out.self = 0
        THEN (\A i \in 1..Len(isochrones) : HasEnvelope(isochrones[i])) =>
                /\ out.ret.status = "ok"
                /\ \E each \in [1..Len(isochrones) ->
                                  {RInt(0)} \cup {isochrones[i].horizontal_branch_density :
                                                    i \in 1..Len(isochrones)}] :
                      /\ \A i \in 1..Len(isochrones) :
                            HBValueHolds(isochrones[i], out.color, out.mag, each[i])
                      /\ out.ret.value =
                            RSum([i \in 1..Len(isochrones) |->
                                    RMul(weights.values[i], each[i])])
        ELSE HasEnvelope(isochrones[out.self]) =>
                /\ out.ret.status = "ok"
                /\ IF out.isscalar
                   THEN HBValueHolds(isochrones[out.self], out.color, out.mag, out.ret.value)
                   ELSE /\ Len(out.ret.value) = Len(out.color)
                        /\ \A k \in 1..Len(out.color) :
                              /\ HBValueHolds(isochrones[out.self], out.color[k], out.mag[k],
                                              out.ret.value[k])
                              /\ out.ret.value[k] =
                                    HorizontalBranch(isochrones[out.self], out.color[k],
                                                     out.mag[k]).value

\* A composite whose members all have an envelope has been queried at a point
\* inside the envelope of one member and has returned that member's positive
\* density times its weight.
HorizontalBranchInsideEnvelopeWitness ==
    /\ out.op = "horizontalBranch"
    /\ out.self = 0
    /\ \A i \in 1..Len(isochrones) :
          HasEnvelope(isochrones[i]) /\ HBPointsUsable(isochrones[i])
    /\ \E i \in 1..Len(isochrones) : InsideEnvelope(isochrones[i], out.color, out.mag)
    /\ weights.dtype = "float"
    /\ out.ret.status = "ok"
    /\ RLess(RInt(0), out.ret.value)

-----------------------------------------------------------------------------
\* Frame and determinism of the calls on a track (checked under SpecFrame).

\* Whether the record holds a call (the initial value of out and prev does
\* not).
IsCall(c) == "call" \in DOMAIN c

-----------------------------------------------------------------------------
\* Properties of stellarMass and stellarLuminosity (checked under SpecRiemann).

\* C21: when stellarMass(mass_min) is called with mass_min below the smallest
\* tabulated initial mass, its interpolant is the tabulated points with the one
\* point (mass_min, mass_min) in front, every grid point is inside the
\* interpolant's domain and the call returns a value; stellarLuminosity()
\* interpolates over the tabulated points alone and its grid starts at the
\* smallest tabulated initial mass.
StellarMassAnchoredInDomain ==
    /\ (out.op = "stellarMass" /\ out.mass_min < SeqMin(isochrones[out.self].mass_init)) =>
          /\ out.points.x = <<out.mass_min>> \o isochrones[out.self].mass_init
          /\ out.points.y = <<out.mass_min>> \o isochrones[out.self].mass_act
          /\ \A k \in 1..out.steps : InDomain(out.points.x, out.grid.mass[k])
          /\ out.ret.status = "ok"
    /\ out.op = "stellarLuminosity" =>
          /\ out.points.x = isochrones[out.self].mass_init
          /\ out.grid.mass[1] = SeqMin(isochrones[out.self].mass_init)

\* C25: in stellarMass() and stellarLuminosity() called with two steps or more,
\* the log-mass step multiplied into the terms of the sum equals the spacing
\* between consecutive points of the log-mass grid.
RiemannStepIsGridSpacing ==
    (out.op \in {"stellarMass", "stellarLuminosity"} /\ out.steps >= 2) =>
        \A k \in 1..(out.steps - 1) :
            RInt(out.grid.log_mass[k + 1] - out.grid.log_mass[k]) = out.grid.d_log_mass

-----------------------------------------------------------------------------
\* Properties of SDSSDatabase.download (checked under SpecDownload).

\* The number of times the last call issued the command for the pixel.
Issued(name, pixel) ==
    Cardinality({k \in 1..Len(commands) : commands[k] = Issue(name, pixel)})

\* C24: when download() or run() ends, every pixel whose query was submitted
\* has had its output table dropped exactly once, whatever failed after the
\* submission; and a download() that found the output file with force false
\* has issued no query, extract, transfer or drop.
DownloadDropsSubmittedTableOnce ==
    /\ \A pixel \in PixelNames :
          Issued("query", pixel) > 0 => Issued("drop", pixel) = 1
    /\ (out.op = "download" /\ out.existed /\ ~out.force) =>
          \A k \in 1..Len(commands) :
              commands[k].command \notin {"query", "extract", "wget", "drop"}

====
